---- MODULE Spec2Model ----
(***************************************************************************)
(* Model of gmt-fem-transfer-functions: the command line's output          *)
(* expansion and optical sensitivities (src/src/cli.rs), the structural    *)
(* builder and H(jw) (src/src/structural.rs, src/src/lib.rs), the parallel *)
(* frequency sweep (src/src/frequency_response.rs) and the export          *)
(* (src/src/data.rs).                                                      *)
(*                                                                         *)
(* Eight specifications share the module:                                  *)
(*   SpecSweep   FrequencyResponse::frequency_response on a rayon pool     *)
(*   SpecBuild   StructuralBuilder setters followed by build()             *)
(*   SpecCli     Cli::fem_outputs and Cli::lom_sensitivies                 *)
(*   SpecMain    Structural::try_from(&Cli) followed by j_omega            *)
(*   SpecExport  build(), TransferFunctionData::add_structural and dump    *)
(*   SpecEval    j_omega called by several workers on one &Structural      *)
(*   SpecJOmega  j_omega on a deserialized Structural, either feature      *)
(*   SpecRun     frequency_response on the model, with fairness            *)
(* Each leaves the variables of the other components at their initial      *)
(* values.                                                                 *)
(***************************************************************************)
EXTENDS Integers, Sequences, FiniteSets, TLC

VARIABLES
    \* ---- frequency sweep (frequency_response.rs) ----
    overflow_checks,  \* build profile: TRUE = debug (usize overflow panics), FALSE = release (wraps)
    nu,               \* the Frequencies argument of frequency_response
    sweep_pc,         \* "idle" | "sweeping" | "done" | "panicked"
    step,             \* log_step / step captured by the map closure
    todo,             \* indices of the parallel iterator not yet taken by a worker
    running,          \* worker -> index it is evaluating, or Idle
    slots,            \* the collect target: index -> FrequencyResponseData or NoPoint
    completion,       \* indices in the order the workers completed them (the progress bar's history)
    data              \* the FrequencyResponseVec returned (<<>> until the call returns)

sweepVars == <<overflow_checks, nu, sweep_pc, step, todo, running, slots, completion, data>>

VARIABLES
    \* ---- structural builder (structural.rs) ----
    fem_loadable,       \* whether FEM::from_env() finds and reads the FEM
    eigen_frequencies,  \* fem.eigen_frequencies, Hz, strictly increasing
    builder,            \* the StructuralBuilder
    build_pc,           \* "builder" | "returned"
    built               \* what build() returned

buildVars == <<fem_loadable, eigen_frequencies, builder, build_pc, built>>

VARIABLES
    \* ---- command line (cli.rs) ----
    cli_outputs,  \* Cli::outputs, the Outputs variants as given on the command line
    cli_pc,       \* "parsed" | "expanded"
    fem_outs,     \* what Cli::fem_outputs returned
    lom_blob,     \* the embedded lom.lz4: "ok" | "bad_lz4" | "bad_bincode"
    lom_pc,       \* "idle" | "returned"
    lom_loads,    \* positions in Cli::outputs at which Lom::new was called
    lom_result    \* what Cli::lom_sensitivies returned

cliVars == <<cli_outputs, cli_pc, fem_outs, lom_blob, lom_pc, lom_loads, lom_result>>

VARIABLES
    \* ---- the model from the command line (lib.rs) and its evaluation ----
    args,     \* the other fields of Cli: inputs, structural_damping, eigen_frequency_min / _max
    model,    \* what Structural::try_from(&args) returned
    main_pc,  \* "parsed" | "built" | "evaluated"
    h_jw      \* what Structural::j_omega returned

mainVars == <<args, model, main_pc, h_jw>>

VARIABLES
    \* ---- export (data.rs) ----
    feature,      \* the linear algebra feature of the build: "nalgebra" | "faer"
    fs_writable,  \* whether File::create / MatFile::save can create the file
    tf_data,      \* the TransferFunctionData
    export_pc,    \* "start" | "added" | "dumped"
    dump_path,    \* the extension of the path given to dump: <<>> or <<ext>>
    files,        \* the files dump created
    dump_result   \* what dump returned

exportVars == <<feature, fs_writable, tf_data, export_pc, dump_path, files, dump_result>>

VARIABLES
    \* ---- concurrent evaluations of one Structural (structural.rs) ----
    ev,      \* worker -> its call of j_omega(&self, jw): position, jw, mode of the fold
    scratch  \* the buffers zeros / cb / ccb of the calls, with the last worker that wrote them

evalVars == <<ev, scratch>>

vars == <<sweepVars, buildVars, cliVars, mainVars, exportVars, evalVars>>

\* what the steps of one component leave alone
notSweep == <<buildVars, cliVars, mainVars, exportVars, evalVars>>
notBuild == <<sweepVars, cliVars, mainVars, exportVars, evalVars>>
notCli == <<sweepVars, buildVars, mainVars, exportVars, evalVars>>
notMain == <<sweepVars, buildVars, cliVars, exportVars, evalVars>>
notExport == <<sweepVars, buildVars, cliVars, mainVars, evalVars>>
notEval == <<sweepVars, buildVars, cliVars, mainVars, exportVars>>

(***************************************************************************)
(* Bounds of the model.                                                    *)
(***************************************************************************)
\* f64 is modelled as a binary floating-point format with MantissaBits
\* significant bits, round-to-nearest-even, whose values are multiples of
\* 2^-FracBits (f64 itself: 53 significant bits).
MantissaBits == 4
FracBits == 8
\* requested frequencies are k/2 Hz, MinFreqHalves <= k <= MaxFreqHalves
MaxFreqHalves == 6
\* largest n of LogSpace / LinSpace
MaxN == 3
\* longest Frequencies::Set
MaxSetLen == 2
\* rayon worker threads
NWorkers == 2
\* the FEM has 1 .. MaxModes modes, at 1 .. MaxEigenHz Hz
MaxModes == 3
MaxEigenHz == 4
\* most --outputs arguments on the command line
MaxOutputs == 3

MinFreqHalves == 2

(***************************************************************************)
(* f64 arithmetic (IEEE-754 round-to-nearest-even at reduced precision).   *)
(* A float is [k, v]: k = "fin" with v the value in units of 2^-FracBits,  *)
(* or k = "inf" / "nan" / "huge" (a finite value beyond the modelled       *)
(* range: usize::MAX as f64).                                              *)
(***************************************************************************)
RECURSIVE Pow2(_)
Pow2(e) == IF e = 0 THEN 1 ELSE 2 * Pow2(e - 1)

One == Pow2(FracBits)

Fin(v) == [k |-> "fin", v |-> v]
NaN == [k |-> "nan", v |-> 0]
Inf == [k |-> "inf", v |-> 0]
Huge == [k |-> "huge", v |-> 0]

IsFin(a) == a.k = "fin"

\* the smallest e >= 0 with num/den < 2^(MantissaBits + e)
RECURSIVE FindExp(_, _, _)
FindExp(num, den, e) ==
    IF num < den * Pow2(MantissaBits + e) THEN e ELSE FindExp(num, den, e + 1)

\* num/den rounded to the nearest integer, ties to even
RoundHalfEven(num, den) ==
    LET q == num \div den
        r == num % den
    IN  IF 2 * r < den THEN q
        ELSE IF 2 * r > den THEN q + 1
        ELSE IF q % 2 = 0 THEN q ELSE q + 1

\* the float nearest to num/den units (num >= 0, den > 0)
RoundFloat(num, den) ==
    LET e == FindExp(num, den, 0)
    IN  Fin(RoundHalfEven(num, den * Pow2(e)) * Pow2(e))

\* k/d as an f64 literal or command-line value
Lit(k, d) == RoundFloat(k * One, d)

\* `n as f64`
FromUsize(n) == RoundFloat(n * One, 1)

FAdd(a, b) ==
    IF a.k = "nan" \/ b.k = "nan" THEN NaN
    ELSE IF a.k = "inf" \/ b.k = "inf" THEN Inf
    ELSE RoundFloat(a.v + b.v, 1)

\* a - b for finite a >= b
FSub(a, b) == RoundFloat(a.v - b.v, 1)

FMul(a, b) ==
    IF a.k = "nan" \/ b.k = "nan" THEN NaN
    ELSE IF a.k = "inf" \/ b.k = "inf"
         THEN IF (IsFin(a) /\ a.v = 0) \/ (IsFin(b) /\ b.v = 0) THEN NaN ELSE Inf
    ELSE RoundFloat(a.v * b.v, One)

\* a / b for finite a >= 0 and b finite, zero or huge
FDiv(a, b) ==
    IF b.k = "huge" THEN Fin(0)
    ELSE IF b.v = 0 THEN (IF a.v = 0 THEN NaN ELSE Inf)
    ELSE RoundFloat(a.v * One, b.v)

\* a - b for finite a, b >= 0, of either sign (negation is exact)
FSubSigned(a, b) == IF a.v >= b.v THEN FSub(a, b) ELSE Fin(0 - FSub(b, a).v)

\* a > b on floats; every comparison with NaN is false
FGt(a, b) == IsFin(a) /\ IsFin(b) /\ a.v > b.v

\* log10(k/2) * 10^5 for the requested frequencies k/2 Hz, 2 <= k <= 11
Log10E5 == <<0, 0, 17609, 30103, 39794, 47712, 54407, 60206, 65321, 69897, 74036>>

\* f64::log10 on a requested frequency (a positive multiple of 1/2 Hz)
Log10(a) == RoundFloat(Log10E5[(2 * a.v) \div One] * One, 100000)

\* 10^(2^-j) * 10^4, j = 1 .. 11
Root10E4 == <<31623, 17783, 13335, 11548, 10746, 10366, 10182, 10090, 10045, 10023, 10011>>

\* 10^(frac / 2^FracBits) * 10^4, the fraction's bits taken from the most
\* significant (bit j weighs 2^-j)
RECURSIVE Pow10Frac(_, _, _)
Pow10Frac(frac, j, acc) ==
    IF j > FracBits THEN acc
    ELSE LET bit == (frac \div Pow2(FracBits - j)) % 2
         IN  Pow10Frac(frac, j + 1,
                 IF bit = 1 THEN (acc * Root10E4[j] + 5000) \div 10000 ELSE acc)

RECURSIVE Pow10Int(_)
Pow10Int(e) == IF e = 0 THEN 1 ELSE 10 * Pow10Int(e - 1)

\* 10f64.powf(x) for x >= 0: exact at integer x, otherwise 10^x rounded
Pow10(x) ==
    IF x.k = "nan" THEN NaN
    ELSE IF x.k = "inf" THEN Inf
    ELSE RoundFloat(Pow10Int(x.v \div One) * Pow10Frac(x.v % One, 1, 10000) * One, 10000)

(***************************************************************************)
(* Frequencies and the sweep (frequency_response.rs).                      *)
(***************************************************************************)
\* DPI = 2 * PI
DPI == Lit(6283, 1000)

FreqValues == { Lit(k, 2) : k \in MinFreqHalves..MaxFreqHalves }

RECURSIVE SeqsUpTo(_, _)
SeqsUpTo(S, len) ==
    IF len = 0 THEN { <<>> }
    ELSE LET shorter == SeqsUpTo(S, len - 1)
         IN  shorter \cup { Append(q, x) : q \in shorter, x \in S }

Single(value) ==
    [kind |-> "Single", value |-> value, lower |-> Fin(0), upper |-> Fin(0), n |-> 0, values |-> <<>>]
LogSpace(lower, upper, n) ==
    [kind |-> "LogSpace", value |-> Fin(0), lower |-> lower, upper |-> upper, n |-> n, values |-> <<>>]
LinSpace(lower, upper, n) ==
    [kind |-> "LinSpace", value |-> Fin(0), lower |-> lower, upper |-> upper, n |-> n, values |-> <<>>]
Set(values) ==
    [kind |-> "Set", value |-> Fin(0), lower |-> Fin(0), upper |-> Fin(0), n |-> 0, values |-> values]

Frequencies ==
    { Single(v) : v \in FreqValues }
    \cup { LogSpace(l, u, n) : l \in FreqValues, u \in FreqValues, n \in 0..MaxN }
    \cup { LinSpace(l, u, n) : l \in FreqValues, u \in FreqValues, n \in 0..MaxN }
    \cup { Set(vs) : vs \in SeqsUpTo(FreqValues, MaxSetLen) }

Idle == -1

\* FrequencyResponse::j_omega: the trait's abstract method, a pure function of jw
j_omega(jw) == [H |-> jw]

\* Cartesian2Polar::magnitude / phase: abstract, pure functions of the response
magnitude(response) == [abs |-> response]
phase(response) == [arg |-> response]

\* FrequencyResponseData::new
FrequencyResponseData(frequency, response) ==
    [frequency |-> frequency, magnitude |-> magnitude(response), phase |-> phase(response)]

\* `(n - 1) as f64`: usize subtraction panics on overflow with overflow checks
\* (debug profile) and wraps to usize::MAX without (release profile)
NMinus1AsF64(n) == IF n >= 1 THEN FromUsize(n - 1) ELSE Huge

\* the index range (0..n) handed to into_par_iter
ParRangeShort(n) == 0..(n - 2)
ParRange(n) == 0..(n - 1)

\* the items of `nu.into_par_iter()` for Frequencies::Set
SetItemsDedup(values) ==
    SelectSeq([k \in 1..Len(values) |->
                  IF k > 1 /\ values[k] = values[k - 1] THEN NaN ELSE values[k]],
              LAMBDA x : x # NaN)
SetItems(values) == values

\* the frequency the map closure computes for index i
ClosureFrequency(i) ==
    CASE nu.kind = "LogSpace" ->
            Pow10(FAdd(Log10(nu.lower), FMul(step, FromUsize(i))))
      [] nu.kind = "LinSpace" ->
            FAdd(nu.lower, FMul(step, FromUsize(i)))
      [] nu.kind = "Set" -> SetItems(nu.values)[i + 1]
      [] OTHER -> nu.value

\* the body of the map closure (and of the Single arm)
MapClosure(i) ==
    LET f == ClosureFrequency(i)
        jw == [re |-> Fin(0), im |-> FMul(DPI, f)]
    IN  FrequencyResponseData(f, j_omega(jw))

\* rayon's collect of an indexed parallel iterator: item i lands in slot i
DeliverInCompletionOrder(target, i, point) == target @@ (Cardinality(DOMAIN target) :> point)
Deliver(target, i, point) == target @@ (i :> point)

EmptySlots == [i \in {} |-> 0]

StartSweep(items, captured) ==
    /\ sweep_pc' = "sweeping"
    /\ step' = captured
    /\ todo' = items
    /\ UNCHANGED <<overflow_checks, nu, running, slots, completion, data, notSweep>>

Panic ==
    /\ sweep_pc' = "panicked"
    /\ UNCHANGED <<overflow_checks, nu, step, todo, running, slots, completion, data, notSweep>>

CallSingle ==
    /\ sweep_pc = "idle"
    /\ nu.kind = "Single"
    /\ data' = << MapClosure(0) >>
    /\ sweep_pc' = "done"
    /\ UNCHANGED <<overflow_checks, nu, step, todo, running, slots, completion, notSweep>>

CallLogSpace ==
    /\ sweep_pc = "idle"
    /\ nu.kind = "LogSpace"
    /\ IF ~FGt(nu.upper, nu.lower) THEN Panic
       ELSE IF nu.n = 0 /\ overflow_checks THEN Panic
       ELSE StartSweep(ParRange(nu.n),
                FDiv(FSub(Log10(nu.upper), Log10(nu.lower)), NMinus1AsF64(nu.n)))

CallLinSpace ==
    /\ sweep_pc = "idle"
    /\ nu.kind = "LinSpace"
    /\ IF ~FGt(nu.upper, nu.lower) THEN Panic
       ELSE IF nu.n = 0 /\ overflow_checks THEN Panic
       ELSE StartSweep(ParRange(nu.n),
                FDiv(FSub(nu.upper, nu.lower), NMinus1AsF64(nu.n)))

CallSet ==
    /\ sweep_pc = "idle"
    /\ nu.kind = "Set"
    /\ StartSweep(ParRange(Len(SetItems(nu.values))), step)

\* a worker of the pool takes (or steals) an item
WorkerTake(w) ==
    /\ sweep_pc = "sweeping"
    /\ running[w] = Idle
    /\ \E i \in todo :
        /\ running' = [running EXCEPT ![w] = i]
        /\ todo' = todo \ {i}
    /\ UNCHANGED <<overflow_checks, nu, sweep_pc, step, slots, completion, data, notSweep>>

\* the worker evaluates the closure and hands the point to the collect
WorkerFinish(w) ==
    /\ sweep_pc = "sweeping"
    /\ running[w] # Idle
    /\ slots' = Deliver(slots, running[w], MapClosure(running[w]))
    /\ completion' = Append(completion, running[w])
    /\ running' = [running EXCEPT ![w] = Idle]
    /\ UNCHANGED <<overflow_checks, nu, sweep_pc, step, todo, data, notSweep>>

\* every item is done: collect returns the vector, FrequencyResponseVec::new wraps it
Collect ==
    /\ sweep_pc = "sweeping"
    /\ todo = {}
    /\ \A w \in 1..NWorkers : running[w] = Idle
    /\ data' = [k \in 1..Cardinality(DOMAIN slots) |-> slots[k - 1]]
    /\ sweep_pc' = "done"
    /\ UNCHANGED <<overflow_checks, nu, step, todo, running, slots, completion, notSweep>>

\* FrequencyResponseVec::frequencies
frequencies(d) == [k \in 1..Len(d) |-> d[k].frequency]

SweepState0 ==
    /\ sweep_pc = "idle"
    /\ step = Fin(0)
    /\ todo = {}
    /\ running = [w \in 1..NWorkers |-> Idle]
    /\ slots = EmptySlots
    /\ completion = <<>>
    /\ data = <<>>

(***************************************************************************)
(* Claims about the sweep, checked under SpecSweep.                        *)
(***************************************************************************)
Gridded == nu.kind \in {"LogSpace", "LinSpace"}
ValidGrid == Gridded /\ FGt(nu.upper, nu.lower) /\ nu.n >= 2

\* the k-th requested frequency (k from 0), from the Frequencies argument alone
Requested(k) ==
    CASE nu.kind = "Single" -> nu.value
      [] nu.kind = "Set" -> nu.values[k + 1]
      [] nu.kind = "LinSpace" ->
            FAdd(nu.lower,
                 FMul(FDiv(FSub(nu.upper, nu.lower), NMinus1AsF64(nu.n)), FromUsize(k)))
      [] OTHER ->
            Pow10(FAdd(Log10(nu.lower),
                       FMul(FDiv(FSub(Log10(nu.upper), Log10(nu.lower)), NMinus1AsF64(nu.n)),
                            FromUsize(k))))

\* C1: whatever the Frequencies variant and whatever order the workers
\* complete in, entry k of the returned FrequencyResponseVec holds the k-th
\* requested frequency and the response evaluated at j*2*pi*that frequency.
C1_OrderPreserved ==
    sweep_pc = "done" =>
        \A k \in 1..Len(data) :
            LET f == Requested(k - 1)
                H == j_omega([re |-> Fin(0), im |-> FMul(DPI, f)])
            IN  /\ data[k].frequency = f
                /\ data[k].magnitude = magnitude(H)
                /\ data[k].phase = phase(H)

\* C1 witness: a sweep that returned although a later index completed before
\* an earlier one.
C1_Witness ==
    /\ sweep_pc = "done"
    /\ Len(data) >= 2
    /\ \E a, b \in 1..Len(completion) : a < b /\ completion[a] > completion[b]
    /\ data[1].frequency # data[2].frequency

\* C7 (as claimed): LogSpace / LinSpace with upper <= lower or n < 2 never
\* starts a sweep nor returns a result: the call aborts.
C7_InvalidGridAborts ==
    (Gridded /\ (~FGt(nu.upper, nu.lower) \/ nu.n < 2)) => sweep_pc \in {"idle", "panicked"}

\* C8: a valid LogSpace / LinSpace returns exactly n points, Single exactly 1.
C8_PointCount ==
    sweep_pc = "done" =>
        /\ ValidGrid => Len(data) = nu.n
        /\ nu.kind = "Single" => Len(data) = 1

\* C8 witness: a valid grid of at least 3 points has been swept and returned.
C8_Witness == sweep_pc = "done" /\ ValidGrid /\ nu.n >= 3 /\ Len(data) = nu.n

\* C9: for Frequencies::Set the frequencies of the returned points are the
\* given values: same length, same order, duplicates kept, nothing sorted.
C9_SetAsGiven ==
    (sweep_pc = "done" /\ nu.kind = "Set") => frequencies(data) = nu.values

\* C9 witness: a Set sweep has returned for values that hold the same
\* frequency twice in a row.
C9_Witness ==
    /\ sweep_pc = "done"
    /\ nu.kind = "Set"
    /\ Len(nu.values) >= 2
    /\ nu.values[1] = nu.values[2]
    /\ Len(data) = Len(nu.values)

\* C10 (as claimed): a valid LogSpace / LinSpace returns lower as its first
\* frequency and upper as its last.
C10_EndpointsExact ==
    (sweep_pc = "done" /\ ValidGrid) =>
        /\ data[1].frequency = nu.lower
        /\ data[Len(data)].frequency = nu.upper

\* a result point that holds the complex response and neither magnitude nor phase
KeepsComplexResponse(point) ==
    /\ "response" \in DOMAIN point
    /\ "magnitude" \notin DOMAIN point
    /\ "phase" \notin DOMAIN point

\* C14 (as claimed): the points the sweep creates and returns hold the complex
\* response; magnitude and phase are not computed when a point is created.
C14_PointsKeepComplexResponse ==
    /\ \A i \in DOMAIN slots : KeepsComplexResponse(slots[i])
    /\ \A k \in DOMAIN data : KeepsComplexResponse(data[k])

(***************************************************************************)
(* The structural builder (structural.rs).                                 *)
(***************************************************************************)
\* the FEM's channel registry, from which build.rs generates Inputs / Outputs
InputsRegistry == <<"OSS_AzDrive_Torque", "OSS_ElDrive_Torque">>
OutputsRegistry == <<"OSS_ElEncoder_Angle", "OSS_M1_lcl", "MC_M2_lcl_6D">>

Range(q) == { q[k] : k \in DOMAIN q }

\* the channel lists handed to Structural::builder
InputLists ==
    { <<"OSS_ElDrive_Torque">>,
      <<"OSS_ElDrive_Torque", "OSS_AzDrive_Torque">>,
      <<"not_an_input">> }
OutputLists ==
    { <<"OSS_ElEncoder_Angle">>,
      <<"OSS_M1_lcl", "MC_M2_lcl_6D">>,
      <<"OSS_ElEncoder_Angle", "not_an_output">> }

None == [some |-> FALSE, v |-> Fin(0)]
Some(x) == [some |-> TRUE, v |-> x]

\* Hz values of the FEM's modes and of the window bounds
EigenHz == { Lit(k, 1) : k \in 1..MaxEigenHz }
BoundHz == { Lit(k, 1) : k \in 0..(MaxEigenHz + 1) }

StrictlyIncreasing(q) == \A a, b \in DOMAIN q : a < b => FGt(q[b], q[a])

EigenLists ==
    { q \in SeqsUpTo(EigenHz, MaxModes) : Len(q) >= 1 /\ StrictlyIncreasing(q) }

FGe(a, b) == IsFin(a) /\ IsFin(b) /\ a.v >= b.v
FLe(a, b) == IsFin(a) /\ IsFin(b) /\ a.v <= b.v

\* StaticGainCompensation::default(): no delay, a 1 x 1 delta_gain
DefaultStaticGainCompensation == [delay |-> <<>>, delta_gain |-> [nrows |-> 1, ncols |-> 1]]

\* Structural::default(); the options are sequences, <<>> for None
DefaultStructuralCompensated ==
    [inputs |-> <<>>, outputs |-> <<>>, b |-> <<>>, c |-> <<>>, g_ssol |-> "None",
     static_gain_mismatch |-> << DefaultStaticGainCompensation >>,
     w |-> <<>>, z |-> Fin(0), optical_senses |-> <<>>]
DefaultStructural ==
    [inputs |-> <<>>, outputs |-> <<>>, b |-> <<>>, c |-> <<>>, g_ssol |-> "None",
     static_gain_mismatch |-> <<>>, w |-> <<>>, z |-> Fin(0), optical_senses |-> <<>>]

\* StructuralBuilder::new, through Structural::builder
NewBuilder(inputs, outputs) ==
    [built |-> [DefaultStructural EXCEPT !.inputs = inputs, !.outputs = outputs,
                                         !.z = Lit(2, 100)],
     min_eigen_frequency |-> None,
     max_eigen_frequency |-> None,
     file_name |-> "structural"]

\* switch_inputs(Off).switch_inputs_by_name(names, On)?: fails on a name the
\* registry does not hold, otherwise the registry's channels that were named
SwitchByNameLenient(registry, names) ==
    [ok |-> TRUE, enabled |-> SelectSeq(registry, LAMBDA ch : ch \in Range(names))]
SwitchByName(registry, names) ==
    IF \E k \in DOMAIN names : names[k] \notin Range(registry)
    THEN [ok |-> FALSE, enabled |-> <<>>]
    ELSE [ok |-> TRUE, enabled |-> SelectSeq(registry, LAMBDA ch : ch \in Range(names))]

\* fem.inputs2modes(): row major, n_modes x n_inputs, the enabled inputs only
inputs2modes(enabled, n_modes) ==
    [idx \in 1..(n_modes * Len(enabled)) |->
        [mode |-> ((idx - 1) \div Len(enabled)) + 1, ch |-> enabled[((idx - 1) % Len(enabled)) + 1]]]

\* the rows a FEM output channel holds: the rigid body motions of M1 and of M2
\* are the 84 columns of the Lom matrices, half each; one row for any other
ChannelRows(ch) ==
    IF ch \in {"OSS_M1_lcl", "MC_M2_lcl_6D"} THEN 84 \div 2 ELSE 1

\* the rows of the enabled outputs, channel after channel in the FEM's order
RECURSIVE OutputRows(_)
OutputRows(enabled) ==
    IF enabled = <<>> THEN <<>>
    ELSE [r \in 1..ChannelRows(Head(enabled)) |-> [ch |-> Head(enabled), row |-> r]]
         \o OutputRows(Tail(enabled))

\* fem.n_outputs()
n_outputs(enabled) == Len(OutputRows(enabled))

\* fem.modes2outputs(): row major, n_outputs x n_modes, the enabled outputs only
modes2outputs(enabled, n_modes) ==
    LET out == OutputRows(enabled)
    IN  [idx \in 1..(Len(out) * n_modes) |->
            [mode |-> ((idx - 1) % n_modes) + 1,
             ch |-> out[((idx - 1) \div n_modes) + 1].ch,
             row |-> out[((idx - 1) \div n_modes) + 1].row]]

\* DMatrix::from_row_slice(nrows, ncols, data), as a sequence of rows
from_row_slice(nrows, ncols, flat) ==
    [i \in 1..nrows |-> [j \in 1..ncols |-> flat[(i - 1) * ncols + j]]]

\* b.rows(s, n) and c.columns(s, n), s counted from 0
rows(m, s, n) == SubSeq(m, s + 1, s + n)
ColumnsFromZero(m, s, n) == [i \in DOMAIN m |-> SubSeq(m[i], 1, n)]
columns(m, s, n) == [i \in DOMAIN m |-> SubSeq(m[i], s + 1, s + n)]

\* fem.eigen_frequencies_to_radians()
EigenFrequenciesReversed(hz) == [i \in DOMAIN hz |-> FMul(DPI, hz[Len(hz) + 1 - i])]
eigen_frequencies_to_radians(hz) == [i \in DOMAIN hz |-> FMul(DPI, hz[i])]

\* .enumerate().find(|(_, f)| *f >= min).unwrap_or_default().0
FirstAtLeastOrLen(hz, min) ==
    IF \E i \in DOMAIN hz : FGe(hz[i], min)
    THEN (CHOOSE i \in DOMAIN hz :
              FGe(hz[i], min) /\ \A k \in 1..(i - 1) : ~FGe(hz[k], min)) - 1
    ELSE Len(hz)
FirstAtLeast(hz, min) ==
    IF \E i \in DOMAIN hz : FGe(hz[i], min)
    THEN (CHOOSE i \in DOMAIN hz :
              FGe(hz[i], min) /\ \A k \in 1..(i - 1) : ~FGe(hz[k], min)) - 1
    ELSE 0

\* .filter_map(keep).enumerate().last().unwrap_or_default().0 + 1
LastKeptIndex(kept) == IF Len(kept) >= 1 THEN Len(kept) - 1 ELSE 0
LastKeptPlusOne(kept) == (IF Len(kept) >= 1 THEN Len(kept) - 1 ELSE 0) + 1

\* the (s, n) of build(): structural.rs lines 253-296
ModeRange(hz, min, max) ==
    CASE min.some /\ max.some ->
            [some |-> TRUE,
             s |-> FirstAtLeast(hz, min.v),
             n |-> LastKeptPlusOne(SelectSeq(hz, LAMBDA f : FGe(f, min.v) /\ FLe(f, max.v)))]
      [] ~min.some /\ max.some ->
            [some |-> TRUE,
             s |-> 0,
             n |-> LastKeptPlusOne(SelectSeq(hz, LAMBDA f : FLe(f, max.v)))]
      [] min.some /\ ~max.some ->
            [some |-> TRUE,
             s |-> FirstAtLeast(hz, min.v),
             n |-> Len(hz) - FirstAtLeast(hz, min.v)]
      [] OTHER -> [some |-> FALSE, s |-> 0, n |-> 0]

Ok(structural) == [kind |-> "Ok", err |-> "", structural |-> <<structural>>]
Err(kind) == [kind |-> "Err", err |-> kind, structural |-> <<>>]
Panicked == [kind |-> "Panic", err |-> "", structural |-> <<>>]
NotBuilt == [kind |-> "", err |-> "", structural |-> <<>>]

\* StructuralBuilder::build
build(self) ==
    LET ins == SwitchByName(InputsRegistry, self.built.inputs)
        outs == SwitchByName(OutputsRegistry, self.built.outputs)
        n_modes == Len(eigen_frequencies)
        b == from_row_slice(n_modes, Len(ins.enabled), inputs2modes(ins.enabled, n_modes))
        c == from_row_slice(n_outputs(outs.enabled), n_modes, modes2outputs(outs.enabled, n_modes))
        w == eigen_frequencies_to_radians(eigen_frequencies)
        q == ModeRange(eigen_frequencies, self.min_eigen_frequency, self.max_eigen_frequency)
    IN  IF ~fem_loadable THEN Err("FEM")
        ELSE IF ~ins.ok \/ ~outs.ok THEN Err("FEM")
        ELSE IF q.some
        THEN IF q.s + q.n > n_modes THEN Panicked
             ELSE Ok([self.built EXCEPT !.b = rows(b, q.s, q.n),
                                        !.c = columns(c, q.s, q.n),
                                        !.g_ssol = "reduced_static_gain",
                                        !.w = SubSeq(w, q.s + 1, q.s + q.n)])
        ELSE Ok([self.built EXCEPT !.b = b, !.c = c,
                                   !.g_ssol = "reduced_static_gain", !.w = w])

Dampings == { Lit(2, 100), Lit(5, 100) }
FileNames == { "structural", "mount" }
\* the optical sensitivity matrices a caller may attach (None, or Some of a
\* 2 x 84 matrix)
Sensitivities == { <<>>, << [nrows |-> 2, ncols |-> 84, mrows |-> <<"s1", "s2">>] >> }

damping(z) ==
    /\ build_pc = "builder"
    /\ builder' = [builder EXCEPT !.built.z = z]
    /\ UNCHANGED <<fem_loadable, eigen_frequencies, build_pc, built, notBuild>>

max_eigen_frequency(f) ==
    /\ build_pc = "builder"
    /\ builder' = [builder EXCEPT !.max_eigen_frequency = f]
    /\ UNCHANGED <<fem_loadable, eigen_frequencies, build_pc, built, notBuild>>

min_eigen_frequency(f) ==
    /\ build_pc = "builder"
    /\ builder' = [builder EXCEPT !.min_eigen_frequency = f]
    /\ UNCHANGED <<fem_loadable, eigen_frequencies, build_pc, built, notBuild>>

filename(file_name) ==
    /\ build_pc = "builder"
    /\ builder' = [builder EXCEPT !.file_name = file_name]
    /\ UNCHANGED <<fem_loadable, eigen_frequencies, build_pc, built, notBuild>>

optical_sensitivities(mat) ==
    /\ build_pc = "builder"
    /\ builder' = [builder EXCEPT !.built.optical_senses = mat]
    /\ UNCHANGED <<fem_loadable, eigen_frequencies, build_pc, built, notBuild>>

Build ==
    /\ build_pc = "builder"
    /\ built' = build(builder)
    /\ build_pc' = "returned"
    /\ UNCHANGED <<fem_loadable, eigen_frequencies, builder, notBuild>>

(***************************************************************************)
(* The command line (cli.rs) and the generated Outputs enum (build.rs).    *)
(***************************************************************************)
\* the variants of Outputs: the FEM's output channels, then the three virtual
\* optical outputs build.rs appends
OutputsVariants ==
    {"OSSElEncoderAngle", "OSSM1Lcl", "MCM2Lcl6D", "TipTilt", "SegmentTipTilt", "SegmentPiston"}

\* Outputs::name
name(io) ==
    CASE io = "OSSElEncoderAngle" -> "OSS_ElEncoder_Angle"
      [] io = "OSSM1Lcl" -> "OSS_M1_lcl"
      [] io = "MCM2Lcl6D" -> "MC_M2_lcl_6D"
      [] io = "TipTilt" -> "tip-tilt"
      [] io = "SegmentTipTilt" -> "segment_tip-tilt"
      [] io = "SegmentPiston" -> "segment_piston"

IsVirtualName(nm) == nm = "tip-tilt" \/ nm = "segment_tip-tilt" \/ nm = "segment_piston"
IsVirtual(io) == io \in {"TipTilt", "SegmentTipTilt", "SegmentPiston"}

\* Vec::dedup: removes consecutive repeated elements
RECURSIVE dedup(_)
dedup(q) ==
    IF Len(q) <= 1 THEN q
    ELSE LET rest == dedup(Tail(q))
         IN  IF Head(q) = Head(rest) THEN rest ELSE <<Head(q)>> \o rest

\* the `for output in &self.outputs` loop of fem_outputs (built with cfg(fem))
PushNoChannels(outs, outputs) == outs
RECURSIVE PushLomChannels(_, _)
PushLomChannels(outs, outputs) ==
    IF outputs = <<>> THEN outs
    ELSE PushLomChannels(
             IF IsVirtual(Head(outputs))
             THEN Append(Append(outs, name("OSSM1Lcl")), name("MCM2Lcl6D"))
             ELSE outs,
             Tail(outputs))

\* Cli::fem_outputs
fem_outputs(outputs) ==
    LET names == [k \in DOMAIN outputs |-> name(outputs[k])]
        outs == SelectSeq(names, LAMBDA nm : ~IsVirtualName(nm))
    IN  dedup(PushLomChannels(outs, outputs))

FemOutputs ==
    /\ cli_pc = "parsed"
    /\ fem_outs' = fem_outputs(cli_outputs)
    /\ cli_pc' = "expanded"
    /\ UNCHANGED <<cli_outputs, lom_blob, lom_pc, lom_loads, lom_result, notCli>>

(***************************************************************************)
(* The linear optical model (cli.rs): Lom::new and Cli::lom_sensitivies.   *)
(***************************************************************************)
\* the shapes of the three sensitivity matrices
LomCols == 84
TipTiltRows == 2
SegmentTipTiltRows == 14
SegmentPistonRows == 7

\* the Lom the blob decodes to: three flat vectors, named here by their field
Lom == [tip_tilt |-> "tip_tilt", segment_tip_tilt |-> "segment_tip_tilt",
        segment_piston |-> "segment_piston"]

\* Lom::new: decompress, then decode, each step passing its error on with `?`
LomNew ==
    CASE lom_blob = "bad_lz4" -> [ok |-> FALSE, err |-> "DecompressOpticalSensitivities"]
      [] lom_blob = "bad_bincode" -> [ok |-> FALSE, err |-> "DeserOpticalSensitivities"]
      [] OTHER -> [ok |-> TRUE, err |-> ""]

\* DMatrix::from_column_slice(nrows, ncols, data): row r holds
\* data[r], data[r + nrows], data[r + 2 * nrows], ... (r counted from 0)
from_column_slice(nrows, ncols, field) ==
    [nrows |-> nrows, ncols |-> ncols,
     mrows |-> [r \in 1..nrows |-> [vec |-> field, first |-> r - 1, stride |-> nrows]]]

\* the `if lom.is_none()` test in front of every Lom::new
LoadAlways(lom) == TRUE
LomIsNone(lom) == lom = <<>>

\* the sub-matrix a virtual output selects
Sensitivity(output, lom) ==
    CASE output = "TipTilt" -> from_column_slice(TipTiltRows, LomCols, lom.tip_tilt)
      [] output = "SegmentTipTilt" ->
            from_column_slice(SegmentTipTiltRows, LomCols, lom.segment_tip_tilt)
      [] OTHER -> from_column_slice(SegmentPistonRows, LomCols, lom.segment_piston)

\* outputs.iter().map(..).filter_map(..).collect::<Result<Vec<_>, _>>(), from
\* position k on: stops at the first Err
RECURSIVE LomMats(_, _, _)
LomMats(outputs, k, acc) ==
    IF k > Len(outputs) THEN acc
    ELSE IF ~IsVirtual(outputs[k]) THEN LomMats(outputs, k + 1, acc)
    ELSE IF LomIsNone(acc.lom)
    THEN IF LomNew.ok
         THEN LomMats(outputs, k + 1,
                      [acc EXCEPT !.lom = <<Lom>>, !.loads = Append(acc.loads, k),
                                  !.mats = Append(acc.mats, Sensitivity(outputs[k], Lom))])
         ELSE [acc EXCEPT !.loads = Append(acc.loads, k), !.err = LomNew.err]
    ELSE LomMats(outputs, k + 1,
                 [acc EXCEPT !.mats = Append(acc.mats, Sensitivity(outputs[k], acc.lom[1]))])

\* mats.into_iter().flat_map(rows of mat).collect()
RECURSIVE StackRowsReversed(_)
StackRowsReversed(mats) ==
    IF mats = <<>> THEN <<>> ELSE StackRowsReversed(Tail(mats)) \o Head(mats).mrows
RECURSIVE StackRows(_)
StackRows(mats) ==
    IF mats = <<>> THEN <<>> ELSE Head(mats).mrows \o StackRows(Tail(mats))

\* DMatrix::from_rows
from_rows(rs) == [nrows |-> Len(rs), ncols |-> LomCols, mrows |-> rs]

\* Cli::lom_sensitivies, with the positions at which it called Lom::new
lom_sensitivies(outputs) ==
    LET done == LomMats(outputs, 1, [lom |-> <<>>, loads |-> <<>>, mats |-> <<>>, err |-> ""])
    IN  [loads |-> done.loads,
         result |->
            IF done.err # "" THEN [kind |-> "Err", err |-> done.err, value |-> <<>>]
            ELSE IF done.lom = <<>> THEN [kind |-> "Ok", err |-> "", value |-> <<>>]
            ELSE [kind |-> "Ok", err |-> "", value |-> << from_rows(StackRows(done.mats)) >>]]

NotCalled == [kind |-> "", err |-> "", value |-> <<>>]

LomSensitivies ==
    /\ lom_pc = "idle"
    /\ lom_loads' = lom_sensitivies(cli_outputs).loads
    /\ lom_result' = lom_sensitivies(cli_outputs).result
    /\ lom_pc' = "returned"
    /\ UNCHANGED <<cli_outputs, cli_pc, fem_outs, lom_blob, notCli>>

(***************************************************************************)
(* Structural::j_omega (structural.rs) and the Structural of the command   *)
(* line (lib.rs).                                                          *)
(***************************************************************************)
\* the modal denominator wi * wi + jw * jw + 2f64 * self.z * wi * jw for
\* jw = j * y, the argument frequency_response passes: a complex number
ode(wi, jw, z) ==
    LET t == FMul(FMul(FMul(Lit(2, 1), z), wi), jw.im)
    IN  [re |-> FSubSigned(FMul(wi, wi), FMul(jw.im, jw.im)), im |-> t]

\* 1f64 / ode: NaN when ode is zero, the reciprocal otherwise
Reciprocal(x) ==
    IF x.re.v = 0 /\ x.im.v = 0 THEN [kind |-> "nan", of |-> x] ELSE [kind |-> "recip", of |-> x]

\* b.ncols()
ncols(b) == IF b = <<>> THEN 0 ELSE Len(b[1])

\* the fold over the modes: c.nrows() x b.ncols(), one term c_i * b_i / ode_i
\* per mode; `steps` lists the operations the response went through
ModalSum(self, jw) ==
    [kind |-> "Ok", nrows |-> Len(self.c), ncols |-> ncols(self.b),
     modal |-> [i \in 1..Len(self.w) |-> Reciprocal(ode(self.w[i], jw, self.z))],
     delta_gain |-> FALSE, sens |-> <<>>, steps |-> << "fold" >>]

JPanic == [kind |-> "Panic", nrows |-> 0, ncols |-> 0, modal |-> <<>>,
           delta_gain |-> FALSE, sens |-> <<>>, steps |-> <<>>]

\* match &self.static_gain_mismatch: fr + delta_gain, or
\* fr + (delta_gain * (-jw * t_s).exp()); the sum panics unless delta_gain has
\* the shape of fr (1 x 1 by default)
AddStaticGainMismatch(self, fr) ==
    IF self.static_gain_mismatch = <<>> THEN fr
    ELSE LET sgm == self.static_gain_mismatch[1]
         IN  IF fr.nrows # sgm.delta_gain.nrows \/ fr.ncols # sgm.delta_gain.ncols THEN JPanic
             ELSE [fr EXCEPT !.delta_gain = TRUE,
                             !.steps = Append(@, IF sgm.delay = <<>>
                                                 THEN "fr + delta_gain"
                                                 ELSE "fr + delta_gain * exp(-jw * t_s)")]

\* if let Some(mat) = self.optical_senses: mat * fr, a panic when the columns of
\* mat are not as many as the rows of fr
ApplyOpticalSenses(self, fr) ==
    IF fr.kind = "Panic" \/ self.optical_senses = <<>> THEN fr
    ELSE IF self.optical_senses[1].ncols # fr.nrows THEN JPanic
    ELSE [fr EXCEPT !.nrows = self.optical_senses[1].nrows, !.sens = self.optical_senses,
                    !.steps = Append(@, "mat * fr")]

\* Structural::j_omega, feature "nalgebra"
Structural_j_omega(self, jw) ==
    ApplyOpticalSenses(self, AddStaticGainMismatch(self, ModalSum(self, jw)))

\* Structural::j_omega, feature "faer": C * (diag(1 / ode) * B) by matmul, then
\* the sensitivities; the match on static_gain_mismatch is commented out
Structural_j_omega_faer(self, jw) ==
    ApplyOpticalSenses(self, ModalSum(self, jw))

\* the j_omega the build compiles in
Structural_j_omega_cfg(self, jw) ==
    IF feature = "faer" THEN Structural_j_omega_faer(self, jw) ELSE Structural_j_omega(self, jw)

NoResponse == [kind |-> "", nrows |-> 0, ncols |-> 0, modal |-> <<>>,
               delta_gain |-> FALSE, sens |-> <<>>, steps |-> <<>>]

\* the variants of Inputs and Inputs::name
InputsVariants == {"OSSAzDriveTorque", "OSSElDriveTorque"}
Inputs_name(io) ==
    IF io = "OSSAzDriveTorque" THEN "OSS_AzDrive_Torque" ELSE "OSS_ElDrive_Torque"

\* Cli::fem_inputs
fem_inputs(inputs) == [k \in DOMAIN inputs |-> Inputs_name(inputs[k])]

\* TryFrom<&Cli> for Structural
try_from(cli) ==
    LET sens == lom_sensitivies(cli.outputs).result
        made == build([built |-> [DefaultStructural EXCEPT
                                      !.inputs = fem_inputs(cli.inputs),
                                      !.outputs = fem_outputs(cli.outputs),
                                      !.z = cli.structural_damping,
                                      !.optical_senses = sens.value],
                       min_eigen_frequency |-> cli.eigen_frequency_min,
                       max_eigen_frequency |-> cli.eigen_frequency_max,
                       file_name |-> ""])
    IN  IF sens.kind = "Err" THEN Err("Cli")
        ELSE IF made.kind = "Err" THEN Err("Structural")
        ELSE made

\* the Cli the command line parsed
Cli == [inputs |-> args.inputs, outputs |-> cli_outputs,
        structural_damping |-> args.structural_damping,
        eigen_frequency_min |-> args.eigen_frequency_min,
        eigen_frequency_max |-> args.eigen_frequency_max]

TryFrom ==
    /\ main_pc = "parsed"
    /\ model' = try_from(Cli)
    /\ main_pc' = "built"
    /\ UNCHANGED <<args, h_jw, notMain>>

\* one evaluation of the model, as frequency_response makes it
JOmega ==
    /\ main_pc = "built"
    /\ model.kind = "Ok"
    /\ \E f \in FreqValues :
          h_jw' = Structural_j_omega_cfg(model.structural[1],
                                        [re |-> Fin(0), im |-> FMul(DPI, f)])
    /\ main_pc' = "evaluated"
    /\ UNCHANGED <<args, model, notMain>>

(***************************************************************************)
(* frequency_response with Self = the model of the command line (a         *)
(* Structural) or an elementary filter (frequency_response.rs).            *)
(***************************************************************************)
\* FirstOrderLowPass::new(), BesselFilter::new(), PICompensator::new(): they
\* cannot fail, and their j_omega is float arithmetic only
FilterModel == [kind |-> "Filter", err |-> "", structural |-> <<>>]

\* there is a model to call frequency_response on
ModelReady == main_pc = "built" /\ model.kind \in {"Ok", "Filter"}

\* self.j_omega(jw) inside the closure of item i panics (only Structural's can)
ClosurePanics(i) ==
    /\ model.kind = "Ok"
    /\ Structural_j_omega_cfg(model.structural[1],
                              [re |-> Fin(0), im |-> FMul(DPI, ClosureFrequency(i))]).kind = "Panic"

\* model.frequency_response(nu), Frequencies::Single arm
ModelCallSingle ==
    /\ ModelReady
    /\ sweep_pc = "idle"
    /\ nu.kind = "Single"
    /\ IF ClosurePanics(0) THEN Panic ELSE CallSingle

\* model.frequency_response(nu), the arms that start a parallel iterator
ModelCallPar ==
    /\ ModelReady
    /\ CallLogSpace \/ CallLinSpace \/ CallSet

\* a worker evaluates the closure: a panic inside it unwinds out of collect
ModelWorkerFinish(w) ==
    /\ sweep_pc = "sweeping"
    /\ running[w] # Idle
    /\ IF ClosurePanics(running[w]) THEN Panic ELSE WorkerFinish(w)

(***************************************************************************)
(* Structural::j_omega called by the workers of the sweep on one shared    *)
(* &Structural (structural.rs, frequency_response.rs).                     *)
(***************************************************************************)
\* the Structural the workers share: the one build returned
SharedStructural == built.structural[1]

\* the buffers of a call: `zeros`, `cb` and `ccb` are locals of j_omega, one
\* set per call, hence per worker
SharedScratch(w) == 1
ScratchOf(w) == w

NotCalling == [pc |-> "idle", jw |-> [re |-> Fin(0), im |-> Fin(0)], i |-> 0, out |-> NoResponse]
\* `par` is how the terms of the accumulator were summed: "Seq" by the thread
\* that called j_omega, "Rayon" by the threads of the pool
NoScratch == [acc |-> <<>>, cb |-> 0, ccb |-> <<>>, writer |-> 0, par |-> "Seq"]

\* the frequencies the workers evaluate at: the two lowest of the sweep
EvalFreqs == { Lit(MinFreqHalves, 2), Lit(MinFreqHalves + 1, 2) }

\* j_omega is entered: DMatrix::zeros for the accumulator, cb and ccb
\* (nalgebra); Mat::zeros for fr (faer)
EvalStart(w) ==
    /\ ev[w].pc = "idle"
    /\ \E f \in EvalFreqs :
          ev' = [ev EXCEPT ![w] = [pc |-> IF feature = "faer" THEN "matmul" ELSE "mul",
                                   jw |-> [re |-> Fin(0), im |-> FMul(DPI, f)],
                                   i |-> 1, out |-> NoResponse]]
    /\ scratch' = [scratch EXCEPT ![ScratchOf(w)] =
                       [acc |-> <<>>, cb |-> 0, ccb |-> <<>>, writer |-> w, par |-> "Seq"]]
    /\ UNCHANGED notEval

\* the orders in which n terms can be summed
Orders(n) == { p \in [1..n -> 1..n] : \A a, b \in 1..n : p[a] = p[b] => a = b }

\* faer: rode, then matmul(&mut fr, Accum::Replace, &self.c, d * &self.b, ..,
\* get_global_parallelism()): one call into faer, which sums the modal terms
\* of fr in the order and on the threads it chooses (Par::Seq or Par::Rayon,
\* whichever is set globally)
Matmul(w) ==
    /\ ev[w].pc = "matmul"
    /\ \E order \in Orders(Len(SharedStructural.w)), par \in {"Seq", "Rayon"} :
          scratch' = [scratch EXCEPT ![ScratchOf(w)] =
              [acc |-> [k \in 1..Len(SharedStructural.w) |->
                           [cb |-> order[k],
                            rode |-> Reciprocal(ode(SharedStructural.w[order[k]], ev[w].jw,
                                                    SharedStructural.z))]],
               cb |-> 0, ccb |-> <<>>, writer |-> w, par |-> par]]
    /\ ev' = [ev EXCEPT ![w].pc = "mul", ![w].i = Len(SharedStructural.w) + 1]
    /\ UNCHANGED notEval

\* c.mul_to(&b, &mut cb) for mode i: reads self.c and self.b, writes cb
MulTo(w) ==
    /\ ev[w].pc = "mul"
    /\ ev[w].i <= Len(SharedStructural.w)
    /\ scratch' = [scratch EXCEPT ![ScratchOf(w)].cb = ev[w].i,
                                  ![ScratchOf(w)].writer = w]
    /\ ev' = [ev EXCEPT ![w].pc = "acc"]
    /\ UNCHANGED notEval

\* ccb.zip_apply(&cb, ..): reads cb, self.w and self.z, writes ccb; then
\* a + &ccb: the accumulator of the fold
Accumulate(w) ==
    /\ ev[w].pc = "acc"
    /\ LET mine == scratch[ScratchOf(w)]
           term == [cb |-> mine.cb,
                    rode |-> Reciprocal(ode(SharedStructural.w[ev[w].i], ev[w].jw,
                                            SharedStructural.z))]
       IN  scratch' = [scratch EXCEPT ![ScratchOf(w)].ccb = <<term>>,
                                      ![ScratchOf(w)].acc = Append(mine.acc, term),
                                      ![ScratchOf(w)].writer = w]
    /\ ev' = [ev EXCEPT ![w].pc = "mul", ![w].i = ev[w].i + 1]
    /\ UNCHANGED notEval

\* the fold is over: the mismatch and sensitivity steps, and the return
EvalReturn(w) ==
    /\ ev[w].pc = "mul"
    /\ ev[w].i > Len(SharedStructural.w)
    /\ ev' = [ev EXCEPT ![w].pc = "done",
                         ![w].out = Structural_j_omega_cfg(SharedStructural, ev[w].jw)]
    /\ UNCHANGED <<scratch, notEval>>

(***************************************************************************)
(* Export (data.rs): TransferFunctionData::add_structural and dump.        *)
(***************************************************************************)
\* TransferFunctionData::default(), the fields this model follows
DefaultTransferFunctionData == [fem_eigen_frequency_range |-> << Fin(0), Fin(0) >>]

\* 0.5 * FRAC_1_PI
HalfFrac1Pi == FMul(Lit(1, 2), Lit(3183, 10000))

\* TransferFunctionData::add_structural
add_structural(self, structural) ==
    [self EXCEPT !.fem_eigen_frequency_range =
        << FMul(structural.w[1], HalfFrac1Pi),
           FMul(structural.w[Len(structural.w)], HalfFrac1Pi) >>]

AddStructural ==
    /\ export_pc = "start"
    /\ build_pc = "returned"
    /\ built.kind = "Ok"
    /\ tf_data' = add_structural(tf_data, built.structural[1])
    /\ export_pc' = "added"
    /\ UNCHANGED <<feature, fs_writable, dump_path, files, dump_result, notExport>>

\* the extensions of the paths given to dump: none, or Some(ext)
Extensions == { <<>>, <<"pkl">>, <<"mat">>, <<"csv">>, <<"PKL">> }

\* TransferFunctionData::dump: the result and the file created
dump(self, extension) ==
    CASE extension = <<"pkl">> ->
            IF fs_writable THEN [result |-> "Ok", created |-> {"pickle"}]
            ELSE [result |-> "Err(CreateDataFile)", created |-> {}]
      [] extension = <<"mat">> /\ feature = "nalgebra" ->
            IF fs_writable THEN [result |-> "Ok", created |-> {"matlab"}]
            ELSE [result |-> "Err(Matlab)", created |-> {}]
      [] extension = <<"mat">> /\ feature = "faer" ->
            [result |-> "panic(unimplemented)", created |-> {}]
      [] extension = <<>> -> [result |-> "Err(MissingFileExtension)", created |-> {}]
      [] OTHER -> [result |-> "Err(DataFileExtension)", created |-> {}]

Dump ==
    /\ export_pc \in {"start", "added"}
    /\ \E extension \in Extensions :
          /\ dump_path' = extension
          /\ dump_result' = dump(tf_data, extension).result
          /\ files' = files \cup dump(tf_data, extension).created
    /\ export_pc' = "dumped"
    /\ UNCHANGED <<feature, fs_writable, tf_data, notExport>>

(***************************************************************************)
(* Claims about the builder, checked under SpecBuild.                      *)
(***************************************************************************)
Returned == build_pc = "returned"
f_min == builder.min_eigen_frequency
f_max == builder.max_eigen_frequency
WindowSet == f_min.some \/ f_max.some
BoundsOrdered == (f_min.some /\ f_max.some) => FLe(f_min.v, f_max.v)
InWindow(f) == (f_min.some => FGe(f, f_min.v)) /\ (f_max.some => FLe(f, f_max.v))
WindowEmpty == \A i \in DOMAIN eigen_frequencies : ~InWindow(eigen_frequencies[i])
NamesKnown ==
    /\ Range(builder.built.inputs) \subseteq Range(InputsRegistry)
    /\ Range(builder.built.outputs) \subseteq Range(OutputsRegistry)
FullOmega == [i \in DOMAIN eigen_frequencies |-> FMul(DPI, eigen_frequencies[i])]

\* C2 (as claimed): with a window set and f_min <= f_max, the omega of the
\* Structural is a contiguous slice of the FEM's omega and every mode of the
\* slice has its Hz eigenfrequency inside the window.
C2_SliceWithinWindow ==
    (Returned /\ built.kind = "Ok" /\ WindowSet /\ BoundsOrdered) =>
        LET w == built.structural[1].w
        IN  \E s \in 0..Len(eigen_frequencies) :
                /\ s + Len(w) <= Len(eigen_frequencies)
                /\ w = SubSeq(FullOmega, s + 1, s + Len(w))
                /\ \A i \in (s + 1)..(s + Len(w)) : InWindow(eigen_frequencies[i])

\* C3 (as claimed): when no eigenfrequency of the FEM lies in the requested
\* window, build returns an error.
C3_EmptyWindowIsError ==
    (Returned /\ WindowSet /\ WindowEmpty) => built.kind = "Err"

\* C4: in every Structural build returns, B has as many rows and C as many
\* columns as omega has entries, and row i of B, column i of C and omega[i]
\* belong to one and the same mode of the FEM.
C4_ModeAlignment ==
    (Returned /\ built.kind = "Ok") =>
        LET st == built.structural[1]
        IN  /\ Len(st.b) = Len(st.w)
            /\ \A o \in DOMAIN st.c : Len(st.c[o]) = Len(st.w)
            /\ \E s \in 0..Len(eigen_frequencies) :
                  \A i \in 1..Len(st.w) :
                      /\ s + i <= Len(eigen_frequencies)
                      /\ st.w[i] = FMul(DPI, eigen_frequencies[s + i])
                      /\ \A j \in DOMAIN st.b[i] : st.b[i][j].mode = s + i
                      /\ \A o \in DOMAIN st.c : st.c[o][i].mode = s + i

\* C4 witness: a Structural pruned on both sides (modes dropped below and
\* above the window) with at least one input and one output.
C4_Witness ==
    /\ Returned /\ built.kind = "Ok"
    /\ f_min.some /\ f_max.some
    /\ Len(built.structural[1].w) >= 1
    /\ Len(built.structural[1].w) < Len(eigen_frequencies) - 1
    /\ built.structural[1].w[1] # FullOmega[1]
    /\ built.structural[1].w[1] = FullOmega[2]
    /\ Len(built.structural[1].c) >= 1
    /\ Len(built.structural[1].b[1]) >= 1

\* C6 (as claimed): a requested channel name the registry does not hold makes
\* build fail with the IOMismatch kind, and no Structural is produced.
C6_UnknownNameIsIOMismatch ==
    (Returned /\ ~NamesKnown) =>
        built.kind = "Err" /\ built.err = "IOMismatch" /\ built.structural = <<>>

\* C6 (amended): a requested channel name the registry does not hold makes
\* build fail with the FEM kind (the FEM's own error, passed on by `?`), and
\* no Structural is produced.
C6_UnknownNameIsFemError ==
    (Returned /\ ~NamesKnown) =>
        built.kind = "Err" /\ built.err = "FEM" /\ built.structural = <<>>

\* C6 witness: build has returned an error for a loaded FEM and an unknown
\* output name among known ones.
C6_Witness ==
    /\ Returned /\ fem_loadable /\ ~NamesKnown
    /\ "OSS_ElEncoder_Angle" \in Range(builder.built.outputs)
    /\ built.kind = "Err"

\* the modes of the FEM inside the window, as indices
ModesInWindow == { i \in DOMAIN eigen_frequencies : InWindow(eigen_frequencies[i]) }

\* row i of b, column i of c and w[i] are those of mode s + i of the FEM, for
\* i = 1..n, and there is nothing else
HoldsModes(st, s, n) ==
    /\ st.w = SubSeq(FullOmega, s + 1, s + n)
    /\ Len(st.b) = n
    /\ \A i \in 1..Len(st.b) : \A j \in DOMAIN st.b[i] : st.b[i][j].mode = s + i
    /\ \A o \in DOMAIN st.c :
          /\ Len(st.c[o]) = n
          /\ \A i \in 1..Len(st.c[o]) : st.c[o][i].mode = s + i

\* C23: with a window that holds at least one mode, the Structural build
\* returns holds every mode whose eigenfrequency f has f >= f_min and
\* f <= f_max (a mode exactly on a bound is kept, a missing bound excludes
\* nothing on its side): the retained range is the whole run of such modes.
C23_WindowModesRetained ==
    (Returned /\ built.kind = "Ok" /\ WindowSet /\ ~WindowEmpty) =>
        LET first == CHOOSE i \in ModesInWindow : \A k \in ModesInWindow : i <= k
        IN  HoldsModes(built.structural[1], first - 1, Cardinality(ModesInWindow))

\* C23 witness: a build with both bounds set, one mode exactly at f_min and
\* another exactly at f_max, both retained, and a mode outside dropped.
C23_Witness ==
    /\ Returned /\ built.kind = "Ok"
    /\ f_min.some /\ f_max.some /\ FGt(f_max.v, f_min.v)
    /\ \E i, k \in DOMAIN eigen_frequencies :
          /\ eigen_frequencies[i] = f_min.v
          /\ eigen_frequencies[k] = f_max.v
          /\ built.structural[1].w = << FullOmega[i], FullOmega[k] >>
    /\ Len(eigen_frequencies) > 2

\* C24: with neither bound set, the Structural build returns holds all the
\* modes of the FEM in their order, and the inputs, outputs, damping and
\* optical sensitivity of the builder as they were set.
C24_NoWindowKeepsAll ==
    (Returned /\ built.kind = "Ok" /\ ~WindowSet) =>
        LET st == built.structural[1]
        IN  /\ HoldsModes(st, 0, Len(eigen_frequencies))
            /\ st.inputs = builder.built.inputs
            /\ st.outputs = builder.built.outputs
            /\ st.z = builder.built.z
            /\ st.optical_senses = builder.built.optical_senses

\* C24 witness: a build without bounds of a FEM of several modes, after the
\* damping and the sensitivity were set.
C24_Witness ==
    /\ Returned /\ built.kind = "Ok" /\ ~WindowSet
    /\ Len(eigen_frequencies) >= 2
    /\ Len(built.structural[1].w) = Len(eigen_frequencies)
    /\ built.structural[1].z # Lit(2, 100)
    /\ built.structural[1].optical_senses # <<>>
    /\ Len(built.structural[1].outputs) >= 2

C20_NoStaticGainMismatch ==
    (Returned /\ built.kind = "Ok") =>
        LET st == built.structural[1]
        IN  /\ st.static_gain_mismatch = <<>>
            /\ LET f == CHOOSE x \in FreqValues : TRUE
                   fr == ModalSum(st, [re |-> Fin(0), im |-> FMul(DPI, f)])
                   out == AddStaticGainMismatch(st, fr)
               IN  ~out.delta_gain /\ out = fr

\* C20 witness: build has returned a Structural after every setter was called
\* with a value other than the default.
C20_Witness ==
    /\ Returned /\ built.kind = "Ok"
    /\ builder.built.z # Lit(2, 100)
    /\ builder.min_eigen_frequency.some
    /\ builder.max_eigen_frequency.some
    /\ builder.file_name # "structural"
    /\ builder.built.optical_senses # <<>>
    /\ built.structural[1].z = builder.built.z

(***************************************************************************)
(* Claims about the command line, checked under SpecCli.                   *)
(***************************************************************************)
\* the requested names with every virtual optical name replaced, in place, by
\* the two channels the linear optical model reads
RECURSIVE ReplaceVirtual(_)
ReplaceVirtual(outputs) ==
    IF outputs = <<>> THEN <<>>
    ELSE (IF IsVirtual(Head(outputs))
          THEN << name("OSSM1Lcl"), name("MCM2Lcl6D") >>
          ELSE << name(Head(outputs)) >>) \o ReplaceVirtual(Tail(outputs))

\* q without the repeats of an element that occurred before
RECURSIVE FirstOccurrences(_)
FirstOccurrences(q) ==
    IF q = <<>> THEN <<>>
    ELSE LET front == FirstOccurrences(SubSeq(q, 1, Len(q) - 1))
         IN  IF q[Len(q)] \in Range(front) THEN front ELSE Append(front, q[Len(q)])

\* C5 (as claimed): fem_outputs returns the mechanical channel names, each at
\* most once, in first-occurrence order, every virtual optical name replaced
\* by OSSM1Lcl and MCM2Lcl6D.
C5_UniqueInFirstOccurrenceOrder ==
    cli_pc = "expanded" =>
        /\ \A a, b \in DOMAIN fem_outs : fem_outs[a] = fem_outs[b] => a = b
        /\ fem_outs = FirstOccurrences(ReplaceVirtual(cli_outputs))

HasVirtual == \E k \in DOMAIN cli_outputs : IsVirtual(cli_outputs[k])
FirstVirtual == CHOOSE k \in DOMAIN cli_outputs :
                    IsVirtual(cli_outputs[k]) /\ \A j \in 1..(k - 1) : ~IsVirtual(cli_outputs[j])

\* rows and Lom field of the sub-matrix of a requested output (0 rows for a
\* mechanical output)
BlockRows(output) ==
    CASE output = "TipTilt" -> TipTiltRows
      [] output = "SegmentTipTilt" -> SegmentTipTiltRows
      [] output = "SegmentPiston" -> SegmentPistonRows
      [] OTHER -> 0
BlockField(output) ==
    CASE output = "TipTilt" -> "tip_tilt"
      [] output = "SegmentTipTilt" -> "segment_tip_tilt"
      [] OTHER -> "segment_piston"

\* number of rows of S above the block of the output at position k
RECURSIVE RowsBefore(_)
RowsBefore(k) == IF k <= 1 THEN 0 ELSE RowsBefore(k - 1) + BlockRows(cli_outputs[k - 1])

\* C11: lom_sensitivies returns None when no virtual optical output is
\* requested; otherwise (the blob loading) a matrix S of 84 columns whose
\* rows are the rows of the requested sub-matrices (2, 14 and 7 rows), block
\* after block in the order of the request, so that S has as many rows as the
\* blocks together.
C11_StackedInRequestOrder ==
    (lom_pc = "returned" /\ lom_blob = "ok") =>
        /\ lom_result.kind = "Ok"
        /\ ~HasVirtual => lom_result.value = <<>>
        /\ HasVirtual =>
              LET S == lom_result.value[1]
              IN  /\ lom_result.value # <<>>
                  /\ S.ncols = 84
                  /\ S.nrows = RowsBefore(Len(cli_outputs) + 1)
                  /\ Len(S.mrows) = S.nrows
                  /\ \A k \in DOMAIN cli_outputs : \A r \in 1..BlockRows(cli_outputs[k]) :
                        S.mrows[RowsBefore(k) + r] =
                            [vec |-> BlockField(cli_outputs[k]), first |-> r - 1,
                             stride |-> BlockRows(cli_outputs[k])]

\* C11 witness: a matrix was returned for a request that lists segment piston
\* before tip-tilt, with a mechanical output in between.
C11_Witness ==
    /\ lom_pc = "returned"
    /\ Len(cli_outputs) = 3
    /\ cli_outputs[1] = "SegmentPiston"
    /\ ~IsVirtual(cli_outputs[2])
    /\ cli_outputs[3] = "TipTilt"
    /\ lom_result.kind = "Ok"
    /\ lom_result.value # <<>>
    /\ lom_result.value[1].nrows = 9

\* C19: Lom::new is not called when no virtual optical output is requested;
\* otherwise it is called once, at the first virtual output of the request,
\* and if it fails lom_sensitivies returns that CliError and no matrix.
C19_LoadedOnceOnFirstVirtual ==
    lom_pc = "returned" =>
        /\ ~HasVirtual => lom_loads = <<>>
        /\ HasVirtual => lom_loads = << FirstVirtual >>
        /\ (HasVirtual /\ lom_blob # "ok") =>
              /\ lom_result.kind = "Err"
              /\ lom_result.err \in {"DecompressOpticalSensitivities", "DeserOpticalSensitivities"}
              /\ lom_result.value = <<>>

\* C19 witness: a request with three virtual outputs after a mechanical one
\* has returned a matrix, and (elsewhere) one with a blob that does not decode
\* has returned the error.
C19_Witness ==
    /\ lom_pc = "returned"
    /\ Len(cli_outputs) = 3
    /\ ~IsVirtual(cli_outputs[1])
    /\ IsVirtual(cli_outputs[2]) /\ IsVirtual(cli_outputs[3])
    /\ lom_loads = << 2 >>
    /\ lom_result.kind = "Ok"

(***************************************************************************)
(* Claims about the model of the command line, checked under SpecMain.     *)
(***************************************************************************)
Evaluated == main_pc = "evaluated"
LomChannels == { name("OSSM1Lcl"), name("MCM2Lcl6D") }

\* the FEM output channels that have rows in C
Engaged(st) == { st.c[o][1].ch : o \in DOMAIN st.c }

\* C12 (as claimed): when the requested outputs hold a virtual optical output,
\* alone or next to mechanical ones, j_omega returns a K x U matrix, K the rows
\* of S and U the number of inputs, and does not fail on the shapes of S and of
\* the mechanical response.
C12_OpticalResponseShape ==
    (Evaluated /\ HasVirtual) =>
        /\ h_jw.kind = "Ok"
        /\ h_jw.nrows = model.structural[1].optical_senses[1].nrows
        /\ h_jw.ncols = Len(args.inputs)

\* C13: a Structural made from the command line holds S only if both channels
\* the linear optical model reads, OSSM1Lcl and MCM2Lcl6D, are among its
\* outputs and have rows in C; so j_omega applies S only then.
C13_SensitivityNeedsLomChannels ==
    /\ (main_pc # "parsed" /\ model.kind = "Ok"
            /\ model.structural[1].optical_senses # <<>>) =>
          /\ LomChannels \subseteq Range(model.structural[1].outputs)
          /\ LomChannels \subseteq Engaged(model.structural[1])
    /\ (Evaluated /\ h_jw.sens # <<>>) =>
          LomChannels \subseteq Engaged(model.structural[1])

\* C13 witness: j_omega has applied S, in a model made for two virtual outputs.
C13_Witness ==
    /\ Evaluated
    /\ Len(cli_outputs) = 2
    /\ IsVirtual(cli_outputs[1]) /\ IsVirtual(cli_outputs[2])
    /\ h_jw.kind = "Ok"
    /\ h_jw.sens # <<>>
    /\ h_jw.nrows = RowsBefore(3)

\* C18 (as claimed): with every eigenfrequency positive, the damping not
\* negative and the evaluation frequency finite, no modal denominator of
\* j_omega is zero, so that no term of the sum is a division by zero.
C18_DenominatorsNonZero ==
    Evaluated =>
        \A i \in DOMAIN h_jw.modal :
            /\ ~(h_jw.modal[i].of.re.v = 0 /\ h_jw.modal[i].of.im.v = 0)
            /\ h_jw.modal[i].kind # "nan"

(***************************************************************************)
(* Claims about the steps of one evaluation, checked under SpecJOmega.     *)
(***************************************************************************)
\* the mismatch's delta_gain has the shape of the modal sum, and the
\* sensitivity has as many columns as the modal sum has rows
Conformable(st) ==
    /\ st.static_gain_mismatch # <<>> =>
          /\ st.static_gain_mismatch[1].delta_gain.nrows = Len(st.c)
          /\ st.static_gain_mismatch[1].delta_gain.ncols = ncols(st.b)
    /\ st.optical_senses # <<>> => st.optical_senses[1].ncols = Len(st.c)

\* the operations of S * (H_modal + correction), innermost first
ClaimedSteps(st) ==
    << "fold" >>
    \o (IF st.static_gain_mismatch = <<>> THEN <<>>
        ELSE IF st.static_gain_mismatch[1].delay = <<>> THEN << "fr + delta_gain" >>
        ELSE << "fr + delta_gain * exp(-jw * t_s)" >>)
    \o (IF st.optical_senses = <<>> THEN <<>> ELSE << "mat * fr" >>)

\* C22 (as claimed): j_omega forms the modal sum, then adds the mismatch term
\* (delta_gain without a delay, delta_gain * exp(-jw * t_s) with one, nothing
\* without a mismatch), and only then multiplies by the sensitivity when there
\* is one.
C22_PostProcessingOrder ==
    (Evaluated /\ Conformable(model.structural[1])) =>
        /\ h_jw.kind = "Ok"
        /\ h_jw.steps = ClaimedSteps(model.structural[1])

(***************************************************************************)
(* Claims about whole sweeps of a model, checked under SpecRun.            *)
(***************************************************************************)
ValidFrequencies == nu.kind \in {"Single", "Set"} \/ ValidGrid

\* how many frequencies nu requests
NRequested ==
    CASE nu.kind = "Single" -> 1
      [] nu.kind = "Set" -> Len(nu.values)
      [] OTHER -> nu.n

\* the call returned one point per requested frequency, in order, each item of
\* the parallel iterator having been evaluated exactly once
SweepComplete ==
    /\ sweep_pc = "done"
    /\ Len(data) = NRequested
    /\ \A k \in 1..Len(data) :
          /\ data[k].frequency = Requested(k - 1)
          /\ data[k].magnitude =
                magnitude(j_omega([re |-> Fin(0), im |-> FMul(DPI, Requested(k - 1))]))
    /\ nu.kind # "Single" =>
          /\ Len(completion) = NRequested
          /\ \A i \in 0..(NRequested - 1) :
                Cardinality({ k \in 1..Len(completion) : completion[k] = i }) = 1

\* C21 (as claimed): every sweep started on a built Structural or on an
\* elementary filter with a valid Frequencies terminates with exactly one
\* evaluation and exactly one result point per requested frequency.
C21_SweepCompletes ==
    (ModelReady /\ sweep_pc = "idle" /\ ValidFrequencies) ~> SweepComplete

(***************************************************************************)
(* Claims about concurrent evaluations, checked under SpecEval.            *)
(***************************************************************************)
\* C17: no step of a sweep writes the shared Structural, and a step that
\* writes a buffer (accumulator, cb, ccb) is a step of the worker whose call of
\* j_omega created that buffer: no worker writes the buffers of another.
C17_WorkersWriteOwnBuffersOnly ==
    [][ /\ built' = built
        /\ \A k \in 1..NWorkers :
              scratch'[k] # scratch[k] => (scratch'[k].writer = k /\ ev'[k] # ev[k])
      ]_vars

\* C17 witness: two workers are inside the fold of j_omega at the same time,
\* at different frequencies, each having written its own cb, and one has
\* accumulated a term.
C17_Witness ==
    /\ ev[1].pc = "acc" /\ ev[2].pc = "acc"
    /\ ev[1].jw # ev[2].jw
    /\ scratch[1].writer = 1 /\ scratch[2].writer = 2
    /\ scratch[1].cb = 2 /\ scratch[2].cb = 1
    /\ Len(scratch[1].acc) = 1

\* C25 (as claimed): within one evaluation the modal terms are accumulated
\* one after another in increasing mode index, by a single thread: at any
\* moment the accumulator of a call holds the terms of modes 1, 2, .. in that
\* order, summed by the calling thread.
C25_ModesSummedInOrder ==
    \A k \in 1..NWorkers :
        /\ scratch[k].par = "Seq"
        /\ \A i \in DOMAIN scratch[k].acc : scratch[k].acc[i].cb = i

(***************************************************************************)
(* Claims about export, checked under SpecExport.                          *)
(***************************************************************************)
Dumped == export_pc = "dumped"

\* C15 (as claimed, the file system accepting the file): dump picks the
\* serialiser by the extension of the path: "pkl" writes a pickle file and
\* returns Ok, "mat" writes a MATLAB file and returns Ok, another extension
\* returns DataFileExtension, none returns MissingFileExtension, and the two
\* errors create no file.
C15_DumpByExtension ==
    (Dumped /\ fs_writable) =>
        /\ dump_path = <<"pkl">> => (dump_result = "Ok" /\ files = {"pickle"})
        /\ dump_path = <<"mat">> => (dump_result = "Ok" /\ files = {"matlab"})
        /\ dump_path \notin {<<>>, <<"pkl">>, <<"mat">>} =>
              (dump_result = "Err(DataFileExtension)" /\ files = {})
        /\ dump_path = <<>> => (dump_result = "Err(MissingFileExtension)" /\ files = {})

\* the Hz range of all the modes of the FEM, converted from rad/s as
\* add_structural converts
AllModesRangeHz ==
    << FMul(FullOmega[1], HalfFrac1Pi), FMul(FullOmega[Len(FullOmega)], HalfFrac1Pi) >>

\* C16 (as claimed): the fem_eigen_frequency_range add_structural records is
\* the (minimum, maximum) eigenfrequency over all the modes of the FEM, also
\* for a Structural built with a mode window.
C16_RangeOverAllModes ==
    export_pc = "added" => tf_data.fem_eigen_frequency_range = AllModesRangeHz

(***************************************************************************)
(* The specifications.                                                     *)
(***************************************************************************)
BuildIdle ==
    /\ fem_loadable = TRUE
    /\ eigen_frequencies = << Lit(1, 1) >>
    /\ builder = NewBuilder(<<>>, <<>>)
    /\ build_pc = "builder"
    /\ built = NotBuilt

CliIdle ==
    /\ cli_outputs = <<>>
    /\ cli_pc = "parsed"
    /\ fem_outs = <<>>
    /\ lom_blob = "ok"
    /\ lom_pc = "idle"
    /\ lom_loads = <<>>
    /\ lom_result = NotCalled

EvalIdle ==
    /\ ev = [w \in 1..NWorkers |-> NotCalling]
    /\ scratch = [k \in 1..NWorkers |-> NoScratch]

ExportIdle ==
    /\ feature = "nalgebra"
    /\ fs_writable = TRUE
    /\ tf_data = DefaultTransferFunctionData
    /\ export_pc = "start"
    /\ dump_path = <<>>
    /\ files = {}
    /\ dump_result = ""

MainIdle ==
    /\ args = [inputs |-> <<>>, structural_damping |-> Lit(2, 100),
               eigen_frequency_min |-> None, eigen_frequency_max |-> None]
    /\ model = NotBuilt
    /\ main_pc = "parsed"
    /\ h_jw = NoResponse

InitSweep ==
    /\ overflow_checks \in BOOLEAN
    /\ nu \in Frequencies
    /\ SweepState0
    /\ BuildIdle
    /\ CliIdle
    /\ MainIdle
    /\ ExportIdle
    /\ EvalIdle

NextSweep ==
    \/ CallSingle
    \/ CallLogSpace
    \/ CallLinSpace
    \/ CallSet
    \/ \E w \in 1..NWorkers : WorkerTake(w)
    \/ \E w \in 1..NWorkers : WorkerFinish(w)
    \/ Collect

SpecSweep == InitSweep /\ [][NextSweep]_vars

SweepIdle ==
    /\ overflow_checks = FALSE
    /\ nu = Single(Lit(1, 1))
    /\ SweepState0

InitBuild ==
    /\ fem_loadable \in BOOLEAN
    /\ eigen_frequencies \in EigenLists
    /\ \E ins \in InputLists, outs \in OutputLists : builder = NewBuilder(ins, outs)
    /\ build_pc = "builder"
    /\ built = NotBuilt
    /\ SweepIdle
    /\ CliIdle
    /\ MainIdle
    /\ ExportIdle
    /\ EvalIdle

NextBuild ==
    \/ \E z \in Dampings : damping(z)
    \/ \E f \in {None} \cup { Some(x) : x \in BoundHz } : max_eigen_frequency(f)
    \/ \E f \in {None} \cup { Some(x) : x \in BoundHz } : min_eigen_frequency(f)
    \/ \E file_name \in FileNames : filename(file_name)
    \/ \E mat \in Sensitivities : optical_sensitivities(mat)
    \/ Build

SpecBuild == InitBuild /\ [][NextBuild]_vars

InitCli ==
    /\ cli_outputs \in SeqsUpTo(OutputsVariants, MaxOutputs)
    /\ cli_pc = "parsed"
    /\ fem_outs = <<>>
    /\ lom_blob \in {"ok", "bad_lz4", "bad_bincode"}
    /\ lom_pc = "idle"
    /\ lom_loads = <<>>
    /\ lom_result = NotCalled
    /\ SweepIdle
    /\ BuildIdle
    /\ MainIdle
    /\ ExportIdle
    /\ EvalIdle

NextCli ==
    \/ FemOutputs
    \/ LomSensitivies

SpecCli == InitCli /\ [][NextCli]_vars

\* the command lines of SpecMain
MainArgs ==
    [inputs : { <<"OSSElDriveTorque">>, <<"OSSAzDriveTorque", "OSSElDriveTorque">> },
     structural_damping : { Fin(0), Lit(2, 100) },
     eigen_frequency_min : {None},
     eigen_frequency_max : {None}]

InitMain ==
    /\ args \in MainArgs
    /\ cli_outputs \in SeqsUpTo(OutputsVariants, MaxOutputs - 1)
    /\ lom_blob \in {"ok", "bad_lz4", "bad_bincode"}
    /\ fem_loadable \in BOOLEAN
    /\ eigen_frequencies \in { q \in EigenLists : Len(q) = 1 }
    /\ model = NotBuilt
    /\ main_pc = "parsed"
    /\ h_jw = NoResponse
    /\ cli_pc = "parsed"
    /\ fem_outs = <<>>
    /\ lom_pc = "idle"
    /\ lom_loads = <<>>
    /\ lom_result = NotCalled
    /\ builder = NewBuilder(<<>>, <<>>)
    /\ build_pc = "builder"
    /\ built = NotBuilt
    /\ SweepIdle
    /\ ExportIdle
    /\ EvalIdle

NextMain ==
    \/ TryFrom
    \/ JOmega

SpecMain == InitMain /\ [][NextMain]_vars

\* the builders of SpecExport: any mode window set on a new builder
WindowedBuilders ==
    { [NewBuilder(<<"OSS_ElDrive_Torque">>, <<"OSS_ElEncoder_Angle">>) EXCEPT
           !.min_eigen_frequency = min, !.max_eigen_frequency = max] :
        min \in {None} \cup { Some(x) : x \in BoundHz },
        max \in {None} \cup { Some(x) : x \in BoundHz } }

InitExport ==
    /\ feature \in {"nalgebra", "faer"}
    /\ fs_writable \in BOOLEAN
    /\ tf_data = DefaultTransferFunctionData
    /\ export_pc = "start"
    /\ dump_path = <<>>
    /\ files = {}
    /\ dump_result = ""
    /\ fem_loadable = TRUE
    /\ eigen_frequencies \in EigenLists
    /\ builder \in WindowedBuilders
    /\ build_pc = "builder"
    /\ built = NotBuilt
    /\ SweepIdle
    /\ CliIdle
    /\ MainIdle
    /\ EvalIdle

NextExport ==
    \/ Build
    \/ AddStructural
    \/ Dump

SpecExport == InitExport /\ [][NextExport]_vars

\* the static gain compensations of SpecJOmega: none, the default one, and
\* 84 x 1 ones without and with a delay
Mismatches ==
    { <<>>, << DefaultStaticGainCompensation >>,
      << [delay |-> <<>>, delta_gain |-> [nrows |-> LomCols, ncols |-> 1]] >>,
      << [delay |-> << Lit(1, 2) >>, delta_gain |-> [nrows |-> LomCols, ncols |-> 1]] >> }

\* SpecJOmega starts with a Structural read back through its Deserialize
\* implementation: what build returns for the rigid-body outputs, with any
\* static gain compensation and sensitivity
InitJOmega ==
    /\ feature \in {"nalgebra", "faer"}
    /\ fem_loadable = TRUE
    /\ eigen_frequencies \in { q \in EigenLists : Len(q) <= 2 }
    /\ \E m \in Mismatches, sens \in Sensitivities :
          model = Ok([build(NewBuilder(<<"OSS_ElDrive_Torque">>,
                                       <<"OSS_M1_lcl", "MC_M2_lcl_6D">>)).structural[1]
                          EXCEPT !.static_gain_mismatch = m, !.optical_senses = sens])
    /\ main_pc = "built"
    /\ args = [inputs |-> <<>>, structural_damping |-> Lit(2, 100),
               eigen_frequency_min |-> None, eigen_frequency_max |-> None]
    /\ h_jw = NoResponse
    /\ builder = NewBuilder(<<>>, <<>>)
    /\ build_pc = "builder"
    /\ built = NotBuilt
    /\ fs_writable = TRUE
    /\ tf_data = DefaultTransferFunctionData
    /\ export_pc = "start"
    /\ dump_path = <<>>
    /\ files = {}
    /\ dump_result = ""
    /\ SweepIdle
    /\ CliIdle
    /\ EvalIdle

NextJOmega == JOmega

SpecJOmega == InitJOmega /\ [][NextJOmega]_vars

\* the Frequencies of SpecRun: valid ones, grids starting at the lowest frequency
RunFrequencies ==
    { f \in Frequencies :
        /\ f.kind \in {"LogSpace", "LinSpace"} =>
              (f.n >= 2 /\ FGt(f.upper, f.lower) /\ f.lower = Lit(MinFreqHalves, 2)) }

\* the --outputs of SpecRun
RunOutputs ==
    { <<"OSSElEncoderAngle">>, <<"TipTilt">>, <<"OSSElEncoderAngle", "TipTilt">> }

\* SpecRun starts either with the command line parsed, or with a filter made
InitRun ==
    /\ nu \in RunFrequencies
    /\ overflow_checks = FALSE
    /\ SweepState0
    /\ args \in { a \in MainArgs : a.inputs = <<"OSSElDriveTorque">> }
    /\ \/ cli_outputs \in RunOutputs /\ main_pc = "parsed" /\ model = NotBuilt
       \/ cli_outputs = <<>> /\ main_pc = "built" /\ model = FilterModel
    /\ h_jw = NoResponse
    /\ cli_pc = "parsed"
    /\ fem_outs = <<>>
    /\ lom_blob = "ok"
    /\ lom_pc = "idle"
    /\ lom_loads = <<>>
    /\ lom_result = NotCalled
    /\ BuildIdle
    /\ ExportIdle
    /\ EvalIdle

NextRun ==
    \/ TryFrom
    \/ ModelCallSingle
    \/ ModelCallPar
    \/ \E w \in 1..NWorkers : WorkerTake(w)
    \/ \E w \in 1..NWorkers : ModelWorkerFinish(w)
    \/ Collect

\* the call of frequency_response, once there is a model, leaves "idle": it
\* starts the parallel iterator, returns (Single) or panics
CallProgress ==
    /\ ModelReady
    /\ sweep_pc = "idle"
    /\ Panic \/ CallSingle \/ CallLogSpace \/ CallLinSpace \/ CallSet

\* a worker that holds an item gets through the closure: it delivers the
\* point or unwinds
WorkerProgress(w) ==
    /\ sweep_pc = "sweeping"
    /\ running[w] # Idle
    /\ Panic \/ WorkerFinish(w)

\* main runs frequency_response and blocks in collect while the workers of
\* the pool take items and run the closure, none of them waiting for anything:
\* each of these steps, while it stays possible, is eventually taken
SpecRun ==
    /\ InitRun
    /\ [][NextRun]_vars
    /\ WF_vars(CallProgress)
    /\ \A w \in 1..NWorkers : WF_vars(WorkerTake(w)) /\ WF_vars(WorkerProgress(w))
    /\ WF_vars(Collect)

\* SpecEval starts where build has returned a Structural of one or two modes
InitEval ==
    /\ fem_loadable = TRUE
    /\ eigen_frequencies \in { q \in EigenLists : Len(q) <= 2 /\ q[1] = Lit(1, 1) }
    /\ builder = NewBuilder(<<"OSS_ElDrive_Torque">>, <<"OSS_ElEncoder_Angle">>)
    /\ build_pc = "returned"
    /\ built = build(builder)
    /\ feature \in {"nalgebra", "faer"}
    /\ fs_writable = TRUE
    /\ tf_data = DefaultTransferFunctionData
    /\ export_pc = "start"
    /\ dump_path = <<>>
    /\ files = {}
    /\ dump_result = ""
    /\ EvalIdle
    /\ SweepIdle
    /\ CliIdle
    /\ MainIdle

NextEval ==
    \/ \E w \in 1..NWorkers : EvalStart(w)
    \/ \E w \in 1..NWorkers : Matmul(w)
    \/ \E w \in 1..NWorkers : MulTo(w)
    \/ \E w \in 1..NWorkers : Accumulate(w)
    \/ \E w \in 1..NWorkers : EvalReturn(w)

SpecEval == InitEval /\ [][NextEval]_vars

====
